---------------------------- MODULE Spec2Model ----------------------------
(***************************************************************************)
(* A model of the ical crate: the Date / Time / DateTime value types with  *)
(* their validation, parsing and formatting, the RecurrenceRule, and the   *)
(* Calendar / Event tree with its serialization to content lines.          *)
(*                                                                         *)
(* Texts are sequences of UTF-8 bytes, one token per byte ("0".."9", "Z",  *)
(* "T", ..., and "C3" "A9" for the two bytes of a non-ASCII character).    *)
(* A fallible operation returns Ok(v), Err(e) or Panic(msg).               *)
(***************************************************************************)
EXTENDS Integers, Sequences, FiniteSets, TLC

VARIABLES
    date,       \* SpecDate: the Date object, None before Date::new returned
    dcall,      \* SpecDate: the most recent call on the Date, with its arguments
    dout,       \* SpecDate: what that call returned (Ok / Panic)
    text,       \* SpecText: the text at hand (an input, or a value's to_string())
    obj,        \* SpecText: the constructed Date / Time / DateTime, if any
    parsed,     \* SpecText: the parser last applied to text, and its result
    chain,      \* SpecRule: the rules built so far: new(f), then each until's result
    rfreq,      \* SpecRule: the frequency given to RecurrenceRule::new
    runtils,    \* SpecRule: the arguments of the until calls, in call order
    calendar,   \* SpecCal / SpecEvent: the Calendar
    event,      \* the Event under construction, None once moved into the calendar
    sink,       \* the writer handed to the most recent Calendar::write, as it left it
    wres,       \* what that Calendar::write returned
    cout,       \* what the most recent build call returned (Ok / Panic)
    gprodid,    \* log: the argument of the last successful set_product_identifier
    gevent,     \* log: Event::new's inputs and each setter's last argument
    gadded,     \* log: the logs of the events given to add_component, in call order
    lhs,        \* SpecOrd: the left operand of a comparison
    rhs,        \* SpecOrd: the right operand, of the same type
    ord         \* SpecOrd: what cmp, ==, < and > returned for them

dateVars == <<date, dcall, dout>>
textVars == <<text, obj, parsed>>
ruleVars == <<chain, rfreq, runtils>>
calVars == <<calendar, event, sink, wres, cout, gprodid, gevent, gadded>>
ordVars == <<lhs, rhs, ord>>
vars == <<date, dcall, dout, text, obj, parsed, chain, rfreq, runtils,
          calendar, event, sink, wres, cout, gprodid, gevent, gadded,
          lhs, rhs, ord>>

----------------------------------------------------------------------------
(* Option and Result values *)

None == [some |-> FALSE]
Some(v) == [some |-> TRUE, val |-> v]

Ok(v) == [tag |-> "Ok", val |-> v]
Err(e) == [tag |-> "Err", err |-> e]
Panic(m) == [tag |-> "Panic", msg |-> m]

NoCall == [op |-> "none"]

----------------------------------------------------------------------------
(* Bounds of the inputs *)

\* month arguments range over 0..MaxMonthInput (and the u8 maximum)
MaxMonthInput == 13
\* day arguments range over 0..MaxDayInput (and the u8 maximum)
MaxDayInput == 32

U8Max == 255
U16Max == 65535

YearInputs == {1900, 2000, 2020, 2021, 9999, 10000}
MonthInputs == (0..MaxMonthInput) \cup {U8Max}
DayInputs == (0..MaxDayInput) \cup {U8Max}

----------------------------------------------------------------------------
(* date.rs *)

is_leap_year_no400(year) == year % 4 = 0 /\ year % 100 # 0

is_leap_year(year) == year % 4 = 0 /\ (year % 100 # 0 \/ year % 400 = 0)

days_in_month(year, month) ==
    CASE month \in {1, 3, 5, 7, 8, 10, 12} -> Ok(31)
      [] month \in {4, 6, 9, 11} -> Ok(30)
      [] month = 2 -> IF is_leap_year(year) THEN Ok(29) ELSE Ok(28)
      [] OTHER -> Panic("Invalid month")

day_out_of_range_no_zero(year, month, day) ==
    LET dim == days_in_month(year, month)
    IN  IF dim.tag = "Panic" THEN dim ELSE Ok(day > dim.val)

\* day < 1 || day > days_in_month(year, month): the right operand is only
\* evaluated when the left one is false, and its panic propagates.
day_out_of_range(year, month, day) ==
    IF day < 1 THEN Ok(TRUE)
    ELSE LET dim == days_in_month(year, month)
         IN  IF dim.tag = "Panic" THEN dim ELSE Ok(day > dim.val)

Date_new(year, month, day) ==
    IF year > 9999 THEN Panic("Year must be less than 10000")
    ELSE IF ~(month \in 1..12) THEN Panic("Month must be between 1 and 12")
    ELSE LET oor == day_out_of_range(year, month, day)
         IN  IF oor.tag = "Panic" THEN oor
             ELSE IF oor.val THEN Panic("Day out of range for month")
             ELSE Ok([year |-> year, month |-> month, day |-> day])

Date_year(self) == self.year

Date_month(self) == self.month

Date_day(self) == self.day

\* u16 / u8 Ord::cmp
int_cmp(a, b) == IF a < b THEN "Less" ELSE IF a = b THEN "Equal" ELSE "Greater"

\* derive(Ord) on Date: the fields in declaration order, the first that
\* differs deciding
Date_cmp(self, other) ==
    LET y == int_cmp(self.year, other.year)
        m == int_cmp(self.month, other.month)
    IN  IF y # "Equal" THEN y
        ELSE IF m # "Equal" THEN m
        ELSE int_cmp(self.day, other.day)

\* derive(PartialEq) on Date
Date_eq(self, other) ==
    self.year = other.year /\ self.month = other.month /\ self.day = other.day

Date_set_year(self, year) ==
    IF ~(year <= 9999) THEN Panic("Year must be less than 10000")
    ELSE Ok([self EXCEPT !.year = year])

\* a setter that stores any month
Date_set_month_unchecked(self, month) ==
    Ok([self EXCEPT !.month = month])

Date_set_month(self, month) ==
    IF ~(month \in 1..12) THEN Panic("Month must be between 1 and 12")
    ELSE Ok([self EXCEPT !.month = month])

Date_set_day(self, day) ==
    LET oor == day_out_of_range(self.year, self.month, day)
    IN  IF oor.tag = "Panic" THEN oor
        ELSE IF oor.val THEN Panic("Day out of range for month")
        ELSE Ok([self EXCEPT !.day = day])

----------------------------------------------------------------------------
(* Texts: &str as its UTF-8 bytes *)

DigitChars == <<"0", "1", "2", "3", "4", "5", "6", "7", "8", "9">>
Digits == {DigitChars[i] : i \in 1..10}
DigitVal(c) == (CHOOSE i \in 1..10 : DigitChars[i] = c) - 1

\* The continuation bytes of multi-byte characters ("C3" "A9" is one character).
ContBytes == {"A9"}

is_ascii_digit(b) == b \in Digits

\* str::is_char_boundary
is_char_boundary(s, i) ==
    \/ i = 0
    \/ i = Len(s)
    \/ (i < Len(s) /\ s[i + 1] \notin ContBytes)

\* &s[a..b]: panics unless a <= b <= len and both lie on character boundaries.
str_slice(s, a, b) ==
    IF a <= b /\ b <= Len(s) /\ is_char_boundary(s, a) /\ is_char_boundary(s, b)
    THEN Ok(SubSeq(s, a + 1, b))
    ELSE Panic("byte index is not a char boundary")

RECURSIVE digits_value(_)
digits_value(s) ==
    IF Len(s) = 0 THEN 0
    ELSE 10 * digits_value(SubSeq(s, 1, Len(s) - 1)) + DigitVal(s[Len(s)])

\* str::parse::<u8 / u16>: an optional leading "+", then one or more decimal
\* digits, and the value must fit the type.
parse_uint(s, max) ==
    LET body == IF Len(s) > 0 /\ s[1] = "+" THEN Tail(s) ELSE s
    IN  IF Len(body) = 0 THEN Err("Empty or InvalidDigit")
        ELSE IF \E i \in 1..Len(body) : ~is_ascii_digit(body[i]) THEN Err("InvalidDigit")
        ELSE IF digits_value(body) > max THEN Err("PosOverflow")
        ELSE Ok(digits_value(body))

RECURSIVE to_digits(_)
to_digits(n) ==
    IF n < 10 THEN <<DigitChars[n + 1]>>
    ELSE to_digits(n \div 10) \o <<DigitChars[(n % 10) + 1]>>

no_pad(n, width) == to_digits(n)

\* {:0width}: the decimal digits, left-padded with zeros to at least width.
zero_pad(n, width) ==
    LET ds == to_digits(n)
    IN  IF Len(ds) >= width THEN ds
        ELSE [i \in 1..(width - Len(ds)) |-> "0"] \o ds

----------------------------------------------------------------------------
(* date.rs: FromStr and Display *)

ParseDateError == Err("ParseDateError")

Date_from_str(s) ==
    IF Len(s) # 8 THEN ParseDateError
    ELSE IF ~(\A i \in 1..Len(s) : is_ascii_digit(s[i])) THEN ParseDateError
    ELSE
    LET ys == str_slice(s, 0, 4) IN
    IF ys.tag = "Panic" THEN ys ELSE
    LET year == parse_uint(ys.val, U16Max) IN
    IF year.tag = "Err" THEN ParseDateError
    ELSE IF year.val > 9999 THEN ParseDateError
    ELSE
    LET ms == str_slice(s, 4, 6) IN
    IF ms.tag = "Panic" THEN ms ELSE
    LET month == parse_uint(ms.val, U8Max) IN
    IF month.tag = "Err" THEN ParseDateError
    ELSE IF ~(month.val \in 1..12) THEN ParseDateError
    ELSE
    LET dstr == str_slice(s, 6, 8) IN
    IF dstr.tag = "Panic" THEN dstr ELSE
    LET day == parse_uint(dstr.val, U8Max) IN
    IF day.tag = "Err" THEN ParseDateError
    ELSE
    LET oor == day_out_of_range(year.val, month.val, day.val) IN
    IF oor.tag = "Panic" THEN oor
    ELSE IF oor.val THEN ParseDateError
    ELSE Ok([year |-> year.val, month |-> month.val, day |-> day.val])

Date_fmt(self) ==
    zero_pad(self.year, 4) \o zero_pad(self.month, 2) \o zero_pad(self.day, 2)

----------------------------------------------------------------------------
(* time.rs *)

Time_new_utc(hour, minute, second) ==
    IF hour > 23 THEN Panic("Hour must be between 0 and 23")
    ELSE IF minute > 59 THEN Panic("Minute must be between 0 and 59")
    ELSE IF second > 59 THEN Panic("Second must be between 0 and 59")
    ELSE Ok([hour |-> hour, minute |-> minute, second |-> second])

Time_hour(self) == self.hour

Time_minute(self) == self.minute

Time_second(self) == self.second

\* derive(Ord) on Time: hour, then minute, then second
Time_cmp(self, other) ==
    LET h == int_cmp(self.hour, other.hour)
        m == int_cmp(self.minute, other.minute)
    IN  IF h # "Equal" THEN h
        ELSE IF m # "Equal" THEN m
        ELSE int_cmp(self.second, other.second)

\* derive(PartialEq) on Time
Time_eq(self, other) ==
    self.hour = other.hour /\ self.minute = other.minute /\ self.second = other.second

ParseTimeError == Err("ParseTimeError")

second_too_large_leap(second) == second > 60

\* the parser's check of the second field
second_too_large(second) == second > 59

Time_from_str(s) ==
    IF Len(s) # 7 THEN ParseTimeError
    ELSE IF ~(\A i \in 1..6 : is_ascii_digit(s[i])) THEN ParseTimeError
    ELSE IF s[7] # "Z" THEN ParseTimeError
    ELSE
    LET hs == str_slice(s, 0, 2) IN
    IF hs.tag = "Panic" THEN hs ELSE
    LET hour == parse_uint(hs.val, U8Max) IN
    IF hour.tag = "Err" THEN ParseTimeError
    ELSE IF hour.val > 23 THEN ParseTimeError
    ELSE
    LET ms == str_slice(s, 2, 4) IN
    IF ms.tag = "Panic" THEN ms ELSE
    LET minute == parse_uint(ms.val, U8Max) IN
    IF minute.tag = "Err" THEN ParseTimeError
    ELSE IF minute.val > 59 THEN ParseTimeError
    ELSE
    LET ss == str_slice(s, 4, 6) IN
    IF ss.tag = "Panic" THEN ss ELSE
    LET second == parse_uint(ss.val, U8Max) IN
    IF second.tag = "Err" THEN ParseTimeError
    ELSE IF second_too_large(second.val) THEN ParseTimeError
    ELSE Ok([hour |-> hour.val, minute |-> minute.val, second |-> second.val])

Time_fmt(self) ==
    zero_pad(self.hour, 2) \o zero_pad(self.minute, 2) \o zero_pad(self.second, 2)
        \o <<"Z">>

----------------------------------------------------------------------------
(* date_time.rs *)

RECURSIVE find_byte(_, _, _)
\* the index of the first byte c of s at or after i, 0 when there is none
find_byte(s, c, i) ==
    IF i > Len(s) THEN 0
    ELSE IF s[i] = c THEN i
    ELSE find_byte(s, c, i + 1)

split_keep_delimiter(s, c) ==
    LET i == find_byte(s, c, 1)
    IN  IF i = 0 THEN None
        ELSE Some(<<SubSeq(s, 1, i - 1), SubSeq(s, i, Len(s))>>)

\* str::split_once: the text before and after the first occurrence of c
split_once(s, c) ==
    LET i == find_byte(s, c, 1)
    IN  IF i = 0 THEN None
        ELSE Some(<<SubSeq(s, 1, i - 1), SubSeq(s, i + 1, Len(s))>>)

\* an ordering that looks at the time of day before the date
DateTime_cmp_time_first(self, other) ==
    LET t == Time_cmp(self.time, other.time)
    IN  IF t # "Equal" THEN t ELSE Date_cmp(self.date, other.date)

\* derive(Ord) on DateTime: date, then time
DateTime_cmp(self, other) ==
    LET d == Date_cmp(self.date, other.date)
    IN  IF d # "Equal" THEN d ELSE Time_cmp(self.time, other.time)

\* derive(PartialEq) on DateTime
DateTime_eq(self, other) ==
    Date_eq(self.date, other.date) /\ Time_eq(self.time, other.time)

\* derive(PartialOrd): partial_cmp is Some(cmp); a < b is partial_cmp == Some(Less)
partial_lt(c) == c = "Less"
partial_gt(c) == c = "Greater"

ParseDateTimeError == Err("ParseDateTimeError")

DateTime_from_str(s) ==
    LET parts == split_once(s, "T")
    IN  IF ~parts.some THEN ParseDateTimeError
        ELSE
        LET d == Date_from_str(parts.val[1]) IN
        IF d.tag = "Panic" THEN d
        ELSE IF d.tag = "Err" THEN ParseDateTimeError
        ELSE
        LET t == Time_from_str(parts.val[2]) IN
        IF t.tag = "Panic" THEN t
        ELSE IF t.tag = "Err" THEN ParseDateTimeError
        ELSE Ok([date |-> d.val, time |-> t.val])

DateTime_fmt(self) == Date_fmt(self.date) \o <<"T">> \o Time_fmt(self.time)

----------------------------------------------------------------------------
(* recurrence_rule.rs *)

RecurrenceFrequencies ==
    {"Yearly", "Monthly", "Weekly", "Daily", "Hourly", "Minutely", "Secondly"}

RecurrenceRule_new(freq) == [freq |-> freq, until |-> None]

RecurrenceRule_until_keep_first(self, until) ==
    [self |-> self,
     ret |-> [freq |-> self.freq,
              until |-> IF self.until.some THEN self.until ELSE Some(until)]]

\* until(&self, until) -> Self: the receiver after the call, and the rule returned
RecurrenceRule_until(self, until) ==
    [self |-> self,
     ret |-> [freq |-> self.freq, until |-> Some(until)]]

RecurrenceFrequency_fmt(self) ==
    CASE self = "Yearly" -> <<"Y", "E", "A", "R", "L", "Y">>
      [] self = "Monthly" -> <<"M", "O", "N", "T", "H", "L", "Y">>
      [] self = "Weekly" -> <<"W", "E", "E", "K", "L", "Y">>
      [] self = "Daily" -> <<"D", "A", "I", "L", "Y">>
      [] self = "Hourly" -> <<"H", "O", "U", "R", "L", "Y">>
      [] self = "Minutely" -> <<"M", "I", "N", "U", "T", "E", "L", "Y">>
      [] self = "Secondly" -> <<"S", "E", "C", "O", "N", "D", "L", "Y">>

\* a parser that reads HOURLY as Minutely
RecurrenceFrequency_from_str_hourly_as_minutely(s) ==
    CASE s = <<"Y", "E", "A", "R", "L", "Y">> -> Ok("Yearly")
      [] s = <<"M", "O", "N", "T", "H", "L", "Y">> -> Ok("Monthly")
      [] s = <<"W", "E", "E", "K", "L", "Y">> -> Ok("Weekly")
      [] s = <<"D", "A", "I", "L", "Y">> -> Ok("Daily")
      [] s = <<"H", "O", "U", "R", "L", "Y">> -> Ok("Minutely")
      [] s = <<"M", "I", "N", "U", "T", "E", "L", "Y">> -> Ok("Minutely")
      [] s = <<"S", "E", "C", "O", "N", "D", "L", "Y">> -> Ok("Secondly")
      [] OTHER -> Err("()")

\* the match of from_str: the arms in order, then the wildcard arm Err(())
RecurrenceFrequency_from_str(s) ==
    CASE s = <<"Y", "E", "A", "R", "L", "Y">> -> Ok("Yearly")
      [] s = <<"M", "O", "N", "T", "H", "L", "Y">> -> Ok("Monthly")
      [] s = <<"W", "E", "E", "K", "L", "Y">> -> Ok("Weekly")
      [] s = <<"D", "A", "I", "L", "Y">> -> Ok("Daily")
      [] s = <<"H", "O", "U", "R", "L", "Y">> -> Ok("Hourly")
      [] s = <<"M", "I", "N", "U", "T", "E", "L", "Y">> -> Ok("Minutely")
      [] s = <<"S", "E", "C", "O", "N", "D", "L", "Y">> -> Ok("Secondly")
      [] OTHER -> Err("()")

RecurrenceRule_fmt(self) ==
    <<"F", "R", "E", "Q", "=">> \o RecurrenceFrequency_fmt(self.freq)
        \o (IF self.until.some
            THEN <<";", "U", "N", "T", "I", "L", "=">> \o DateTime_fmt(self.until.val)
            ELSE << >>)

----------------------------------------------------------------------------
(* The ical_vcard collaborator, at its boundary: Value, Contentline, Writer *)

\* bytes a property value may not hold
ControlBytes == {"NUL"}

\* Value::new: the validated string, or an error for a disallowed byte
Value_new(s) ==
    IF \E i \in 1..Len(s) : s[i] \in ControlBytes THEN Err("invalid value")
    ELSE Ok(s)

Value_as_str(v) == v

Contentline_new(name, value) == [name |-> name, value |-> value]

\* the io::Error of a sink that fails at its n-th write
SinkError(n) == [kind |-> "io::Error", write |-> n]

\* a writer over a sink that fails at its failAt-th write (never, if 0)
Writer_new(failAt) ==
    [lines |-> << >>, calls |-> 0, failAt |-> failAt]

\* Writer::write: one content line handed to the sink, which takes it or fails
Writer_write(w, line) ==
    LET n == w.calls + 1
    IN  IF n = w.failAt
        THEN [w |-> [w EXCEPT !.calls = n], res |-> Err(SinkError(n))]
        ELSE [w |-> [w EXCEPT !.calls = n, !.lines = Append(w.lines, line)],
              res |-> Ok("()")]

----------------------------------------------------------------------------
(* start_date_time.rs *)

StartDateTime_from_date(d) == [value |-> [variant |-> "Date", v |-> d]]

StartDateTime_from_date_time(dt) == [value |-> [variant |-> "DateTime", v |-> dt]]

DateAndMaybeTime_fmt(self) ==
    CASE self.variant = "Date" -> Date_fmt(self.v)
      [] self.variant = "DateTime" -> DateTime_fmt(self.v)

StartDateTime_write(w, self) ==
    Writer_write(w, Contentline_new("DTSTART", DateAndMaybeTime_fmt(self.value)))

----------------------------------------------------------------------------
(* lib.rs *)

\* concat!("nicolabruhin.com : ", CARGO_PKG_NAME, " ", CARGO_PKG_VERSION)
DEFAULT_PRODUCT_IDENTIFIER ==
    <<"nicolabruhin.com : ", "CARGO_PKG_NAME", " ", "CARGO_PKG_VERSION">>

then_write_ignoring_error(ws, line) ==
    LET r == Writer_write(ws.w, line)
    IN  [w |-> r.w, res |-> IF ws.res.tag = "Err" THEN ws.res ELSE r.res]

\* writer.write(&line)?; after the statements that led to ws: nothing is
\* written once an earlier ? has returned the error
then_write(ws, line) ==
    IF ws.res.tag = "Err" THEN ws ELSE Writer_write(ws.w, line)

Calendar_new == [product_identifier |-> None, components |-> << >>]

Calendar_set_product_identifier(self, product_identifier) ==
    LET v == Value_new(product_identifier)
    IN  IF v.tag = "Err" THEN Panic("Invalid product identifier")
        ELSE Ok([self EXCEPT !.product_identifier = Some(v.val)])

Calendar_product_identifier(self) ==
    IF self.product_identifier.some
    THEN Value_as_str(self.product_identifier.val)
    ELSE DEFAULT_PRODUCT_IDENTIFIER

Component_from_event(ev) == [kind |-> "Event", event |-> ev]

Calendar_add_component_first(self, component) ==
    [self EXCEPT !.components = <<component>> \o self.components]

Calendar_add_component(self, component) ==
    [self EXCEPT !.components = Append(self.components, component)]

Calendar_components(self) == self.components

\* Uuid::new_v4().to_string(): the random identifier is an input
Event_new(start_date_time, date_time, uuid) ==
    LET v == Value_new(uuid)
    IN  IF v.tag = "Err" THEN Panic("UUIDs are always valid values")
        ELSE Ok([uid |-> v.val,
                 date_time |-> date_time,
                 start_date_time |-> start_date_time,
                 description |-> None,
                 location |-> None,
                 summary |-> None,
                 recurrence_rule |-> None])

\* a setter that also gives the event a new identifier
Event_set_description_new_uid(self, description) ==
    LET v == Value_new(description)
    IN  IF v.tag = "Err" THEN Panic("Invalid description")
        ELSE Ok([self EXCEPT !.description = Some(v.val), !.uid = <<"uuid-0">>])

Event_set_description(self, description) ==
    LET v == Value_new(description)
    IN  IF v.tag = "Err" THEN Panic("Invalid description")
        ELSE Ok([self EXCEPT !.description = Some(v.val)])

Event_set_location_as_summary(self, location) ==
    LET v == Value_new(location)
    IN  IF v.tag = "Err" THEN Panic("Invalid location")
        ELSE Ok([self EXCEPT !.summary = Some(v.val)])

Event_set_location(self, location) ==
    LET v == Value_new(location)
    IN  IF v.tag = "Err" THEN Panic("Invalid location")
        ELSE Ok([self EXCEPT !.location = Some(v.val)])

Event_set_summary(self, summary) ==
    LET v == Value_new(summary)
    IN  IF v.tag = "Err" THEN Panic("Invalid summary")
        ELSE Ok([self EXCEPT !.summary = Some(v.val)])

Event_set_recurrence_rule(self, recurrence_rule) ==
    [self EXCEPT !.recurrence_rule = Some(recurrence_rule)]

Event_write(ws, self) ==
    LET s1 == then_write(ws, Contentline_new("BEGIN", <<"V", "E", "V", "E", "N", "T">>))
        s2 == then_write(s1, Contentline_new("UID", Value_as_str(self.uid)))
        s3 == then_write(s2, Contentline_new("DTSTAMP", DateTime_fmt(self.date_time)))
        s4 == IF s3.res.tag = "Err" THEN s3
              ELSE StartDateTime_write(s3.w, self.start_date_time)
        s5 == IF self.description.some
              THEN then_write(s4, Contentline_new("DESCRIPTION",
                                                  Value_as_str(self.description.val)))
              ELSE s4
        s6 == IF self.location.some
              THEN then_write(s5, Contentline_new("LOCATION",
                                                  Value_as_str(self.location.val)))
              ELSE s5
        s7 == IF self.summary.some
              THEN then_write(s6, Contentline_new("SUMMARY",
                                                  Value_as_str(self.summary.val)))
              ELSE s6
        s8 == IF self.recurrence_rule.some
              THEN then_write(s7, Contentline_new("RRULE",
                                                  RecurrenceRule_fmt(self.recurrence_rule.val)))
              ELSE s7
    IN  then_write(s8, Contentline_new("END", <<"V", "E", "V", "E", "N", "T">>))

Component_write(ws, self) ==
    CASE self.kind = "Event" -> Event_write(ws, self.event)

RECURSIVE write_components(_, _, _)
\* for component in &self.components { component.write(&mut writer)?; }
write_components(ws, components, i) ==
    IF i > Len(components) THEN ws
    ELSE IF ws.res.tag = "Err" THEN ws
    ELSE write_components(Component_write(ws, components[i]), components, i + 1)

\* a write that takes the components out of the calendar as it writes them
Calendar_write_taking_components(self, writer) ==
    LET s0 == [w |-> writer, res |-> Ok("()")]
        s1 == then_write(s0, Contentline_new("BEGIN", <<"V", "C", "A", "L", "E", "N", "D", "A", "R">>))
        s2 == then_write(s1, Contentline_new("PRODID", Calendar_product_identifier(self)))
        s3 == then_write(s2, Contentline_new("VERSION", <<"2", ".", "0">>))
        s4 == write_components(s3, self.components, 1)
        s5 == then_write(s4, Contentline_new("END", <<"V", "C", "A", "L", "E", "N", "D", "A", "R">>))
    IN  [self |-> [self EXCEPT !.components = << >>], w |-> s5.w, res |-> s5.res]

\* write(&self, writer): the receiver after the call (borrowed shared, so as
\* it was), the writer after the call, and the io::Result returned
Calendar_write(self, writer) ==
    LET s0 == [w |-> writer, res |-> Ok("()")]
        s1 == then_write(s0, Contentline_new("BEGIN", <<"V", "C", "A", "L", "E", "N", "D", "A", "R">>))
        s2 == then_write(s1, Contentline_new("PRODID", Calendar_product_identifier(self)))
        s3 == then_write(s2, Contentline_new("VERSION", <<"2", ".", "0">>))
        s4 == write_components(s3, self.components, 1)
        s5 == then_write(s4, Contentline_new("END", <<"V", "C", "A", "L", "E", "N", "D", "A", "R">>))
    IN  [self |-> self, w |-> s5.w, res |-> s5.res]

----------------------------------------------------------------------------
(* SpecDate: one Date object, constructed once and then mutated by its     *)
(* setters.  A panicking setter leaves the object as it was (the assert    *)
(* precedes the assignment); a panicking Date::new produces no object.     *)

\* no text at hand, no value constructed, nothing parsed
TextIdle ==
    /\ text = << >>
    /\ obj = None
    /\ parsed = None

\* no Date object yet
DateIdle ==
    /\ date = None
    /\ dcall = NoCall
    /\ dout = None

\* no recurrence rule yet
RuleIdle ==
    /\ chain = << >>
    /\ rfreq = None
    /\ runtils = << >>

\* an empty calendar, no event, nothing written
CalIdle ==
    /\ calendar = Calendar_new
    /\ event = None
    /\ sink = Writer_new(0)
    /\ wres = None
    /\ cout = None
    /\ gprodid = None
    /\ gevent = None
    /\ gadded = << >>

\* nothing compared yet
OrdIdle ==
    /\ lhs = None
    /\ rhs = None
    /\ ord = None

\* Input texts are written down digit by digit, independently of Display.
TwoDigits(n) == <<DigitChars[(n \div 10) + 1], DigitChars[(n % 10) + 1]>>
FourDigits(n) == TwoDigits(n \div 100) \o TwoDigits(n % 100)

\* the texts a Date may be parsed from instead of being made by Date::new
ParseYears == {2020, 2021}
ParseMonths == (0..MaxMonthInput) \cup {99}
ParseDays == {0, 1, 29, 30, 31, 99}

DateParseTexts ==
    {FourDigits(y) \o TwoDigits(m) \o TwoDigits(d) :
        y \in ParseYears, m \in ParseMonths, d \in ParseDays}
        \cup { <<"2", "0", "2", "1", "1", "3">>,
                <<"2", "0", "2", "1", "-", "1", "3", "-", "0", "1">>,
                <<"2", "0", "2", "1", "+", "1", "0", "1">>,
                <<"2", "0", "2", "1", "1", "3", "C3", "A9">>,
                << >> }

DateInit ==
    /\ DateIdle
    /\ TextIdle
    /\ RuleIdle
    /\ CalIdle
    /\ OrdIdle

DateNewCall(year, month, day) ==
    /\ dcall = NoCall
    /\ LET r == Date_new(year, month, day)
       IN  /\ date' = IF r.tag = "Ok" THEN Some(r.val) ELSE date
           /\ dout' = Some(r)
    /\ dcall' = [op |-> "new", args |-> <<year, month, day>>]
    /\ UNCHANGED <<textVars, ruleVars, calVars, ordVars>>

\* text.parse::<Date>(): the other way a Date comes into being
FromStrCall(s) ==
    /\ dcall = NoCall
    /\ LET r == Date_from_str(s)
       IN  /\ date' = IF r.tag = "Ok" THEN Some(r.val) ELSE date
           /\ dout' = Some(r)
    /\ dcall' = [op |-> "from_str", args |-> <<s>>]
    /\ UNCHANGED <<textVars, ruleVars, calVars, ordVars>>

SetYearCall(year) ==
    /\ date.some
    /\ LET r == Date_set_year(date.val, year)
       IN  /\ date' = IF r.tag = "Ok" THEN Some(r.val) ELSE date
           /\ dout' = Some(r)
    /\ dcall' = [op |-> "set_year", args |-> <<year>>]
    /\ UNCHANGED <<textVars, ruleVars, calVars, ordVars>>

SetMonthCall(month) ==
    /\ date.some
    /\ LET r == Date_set_month(date.val, month)
       IN  /\ date' = IF r.tag = "Ok" THEN Some(r.val) ELSE date
           /\ dout' = Some(r)
    /\ dcall' = [op |-> "set_month", args |-> <<month>>]
    /\ UNCHANGED <<textVars, ruleVars, calVars, ordVars>>

SetDayCall(day) ==
    /\ date.some
    /\ LET r == Date_set_day(date.val, day)
       IN  /\ date' = IF r.tag = "Ok" THEN Some(r.val) ELSE date
           /\ dout' = Some(r)
    /\ dcall' = [op |-> "set_day", args |-> <<day>>]
    /\ UNCHANGED <<textVars, ruleVars, calVars, ordVars>>

DateNext ==
    \/ dcall = NoCall /\ \E y \in YearInputs, m \in MonthInputs, d \in DayInputs :
          DateNewCall(y, m, d)
    \/ dcall = NoCall /\ \E s \in DateParseTexts : FromStrCall(s)
    \/ \E y \in YearInputs : SetYearCall(y)
    \/ \E m \in MonthInputs : SetMonthCall(m)
    \/ \E d \in DayInputs : SetDayCall(d)

SpecDate == DateInit /\ [][DateNext]_vars

----------------------------------------------------------------------------
(* SpecText: the parsers applied to input texts, and to the texts that     *)
(* Display produces for constructed values.                                *)

\* hour arguments range over 0..MaxHourInput (and the u8 maximum)
MaxHourInput == 24

HourInputs == (0..MaxHourInput) \cup {U8Max}
MinuteInputs == {0, 34, 59, 60}
SecondInputs == {0, 56, 59, 60}

\* the Dates a DateTime is composed of
DateTimeDateInputs == {<<1998, 1, 19>>, <<2020, 2, 29>>, <<9999, 12, 31>>, <<2021, 2, 29>>}

TextYears == {0, 1900, 2000, 2020, 2021, 9999}
TextMonths == (0..MaxMonthInput) \cup {99}
TextDays == (0..MaxDayInput) \cup {99}
TextHours == (0..MaxHourInput) \cup {99}

DateTexts ==
    {FourDigits(y) \o TwoDigits(m) \o TwoDigits(d) :
        y \in TextYears, m \in TextMonths, d \in TextDays}

TimeDigitTexts ==
    {TwoDigits(h) \o TwoDigits(m) \o TwoDigits(s) :
        h \in TextHours, m \in MinuteInputs, s \in SecondInputs}

\* the UTC form HHMMSSZ and the local form HHMMSS
TimeTexts == TimeDigitTexts \cup {t \o <<"Z">> : t \in TimeDigitTexts}

PairDateTexts ==
    { <<"1", "9", "9", "8", "0", "1", "1", "9">>,
      <<"2", "0", "2", "0", "0", "2", "2", "9">>,
      <<"2", "0", "2", "1", "0", "2", "2", "9">>,
      <<"2", "0", "2", "0", "0", "2", "2">>,
      <<>> }

PairTimeTexts ==
    { <<"0", "7", "0", "0", "0", "0", "Z">>,
      <<"2", "3", "5", "9", "5", "9", "Z">>,
      <<"2", "3", "5", "9", "6", "0", "Z">>,
      <<"0", "7", "0", "0", "0", "0">>,
      <<"0", "7", "0", "0", "0", "0", "-", "0", "8", "0", "0">>,
      <<"0", "7", "T", "0", "0", "0", "Z">>,
      <<>> }

DateTimeTexts ==
    {d \o <<"T">> \o t : d \in PairDateTexts, t \in PairTimeTexts}
        \cup {d \o t : d \in PairDateTexts, t \in PairTimeTexts}

\* bytes that are not digits
OddBytes == {"Z", "T", "-", "+", " ", "a", "z", "C3", "A9"}

\* s with one byte replaced, removed or inserted, or two adjacent bytes
\* replaced by a two-byte character
Corrupt(s) ==
    {[s EXCEPT ![i] = c] : i \in 1..Len(s), c \in OddBytes \cup {"0"}}
        \cup {SubSeq(s, 1, i - 1) \o SubSeq(s, i + 1, Len(s)) : i \in 1..Len(s)}
        \cup {SubSeq(s, 1, i) \o <<c>> \o SubSeq(s, i + 1, Len(s)) :
                i \in 0..Len(s), c \in OddBytes \cup {"0"}}
        \cup {SubSeq(s, 1, i - 1) \o <<"C3", "A9">> \o SubSeq(s, i + 2, Len(s)) :
                i \in 1..(Len(s) - 1)}

CorruptBases ==
    { <<"2", "0", "2", "0", "0", "2", "2", "9">>,
      <<"2", "3", "5", "9", "5", "9", "Z">>,
      <<"1", "9", "9", "8", "0", "1", "1", "9", "T", "0", "7", "0", "0", "0", "0", "Z">> }

TestTexts ==
    { <<"2", "0", "2", "1", "-", "0", "1", "-", "0", "1">>,
      <<"1", "9", "9", "8", "0", "1", "1", "8", "T", "2", "3", "0", "0", "0", "0">>,
      <<"1", "9", "9", "8", "0", "1", "1", "9", "T", "2", "3", "0", "0", "0", "0", "-", "0", "8", "0", "0">>,
      <<"1", "2", "3", "4", "5", "6">>,
      <<"9", "9", "9", "9", "0", "9", "0", "9">>,
      <<"1", "9", "9", "8", "0", "1", "1", "9", "T", "0", "7", "0", "0", "0", "0", "Z">>,
      <<"+", "2", "0", "2", "0", "1", "0", "1">>,
      <<"+", "7", "0", "0", "0", "0", "Z">>,
      <<>> }

RawTexts ==
    DateTexts \cup TimeTexts \cup DateTimeTexts \cup TestTexts
        \cup UNION {Corrupt(s) : s \in CorruptBases}

TextInit ==
    /\ text \in RawTexts
    /\ obj = None
    /\ parsed = None
    /\ DateIdle
    /\ RuleIdle
    /\ CalIdle
    /\ OrdIdle

NewDate(year, month, day) ==
    /\ TextIdle
    /\ LET r == Date_new(year, month, day)
       IN  obj' = IF r.tag = "Ok" THEN Some([type |-> "Date", v |-> r.val]) ELSE obj
    /\ UNCHANGED <<text, parsed>>
    /\ UNCHANGED <<dateVars, ruleVars, calVars, ordVars>>

NewTime(hour, minute, second) ==
    /\ TextIdle
    /\ LET r == Time_new_utc(hour, minute, second)
       IN  obj' = IF r.tag = "Ok" THEN Some([type |-> "Time", v |-> r.val]) ELSE obj
    /\ UNCHANGED <<text, parsed>>
    /\ UNCHANGED <<dateVars, ruleVars, calVars, ordVars>>

\* DateTime { date: Date::new(..), time: Time::new_utc(..) }
NewDateTime(dargs, hour, minute, second) ==
    /\ TextIdle
    /\ LET d == Date_new(dargs[1], dargs[2], dargs[3])
           t == Time_new_utc(hour, minute, second)
       IN  obj' = IF d.tag = "Ok" /\ t.tag = "Ok"
                    THEN Some([type |-> "DateTime", v |-> [date |-> d.val, time |-> t.val]])
                    ELSE obj
    /\ UNCHANGED <<text, parsed>>
    /\ UNCHANGED <<dateVars, ruleVars, calVars, ordVars>>

\* value.to_string()
ToStringCall ==
    /\ obj.some
    /\ text = << >>
    /\ text' = CASE obj.val.type = "Date" -> Date_fmt(obj.val.v)
                 [] obj.val.type = "Time" -> Time_fmt(obj.val.v)
                 [] obj.val.type = "DateTime" -> DateTime_fmt(obj.val.v)
    /\ parsed' = None
    /\ UNCHANGED obj
    /\ UNCHANGED <<dateVars, ruleVars, calVars, ordVars>>

\* text.parse::<Date>()
DateFromStr ==
    /\ parsed' = Some([parser |-> "Date", res |-> Date_from_str(text)])
    /\ UNCHANGED <<text, obj>>
    /\ UNCHANGED <<dateVars, ruleVars, calVars, ordVars>>

\* text.parse::<Time>()
TimeFromStr ==
    /\ parsed' = Some([parser |-> "Time", res |-> Time_from_str(text)])
    /\ UNCHANGED <<text, obj>>
    /\ UNCHANGED <<dateVars, ruleVars, calVars, ordVars>>

\* text.parse::<DateTime>()
DateTimeFromStr ==
    /\ parsed' = Some([parser |-> "DateTime", res |-> DateTime_from_str(text)])
    /\ UNCHANGED <<text, obj>>
    /\ UNCHANGED <<dateVars, ruleVars, calVars, ordVars>>

TextNext ==
    \/ TextIdle /\ \E y \in YearInputs, m \in MonthInputs, d \in DayInputs :
          NewDate(y, m, d)
    \/ TextIdle /\ \E h \in HourInputs, m \in MinuteInputs, s \in SecondInputs :
          NewTime(h, m, s)
    \/ TextIdle /\ \E a \in DateTimeDateInputs, h \in HourInputs,
                       m \in MinuteInputs, s \in SecondInputs :
          NewDateTime(a, h, m, s)
    \/ ToStringCall
    \/ DateFromStr
    \/ TimeFromStr
    \/ DateTimeFromStr

SpecText == TextInit /\ [][TextNext]_vars

----------------------------------------------------------------------------
(* SpecRule: a rule made by RecurrenceRule::new, then a chain of until      *)
(* calls, each on the rule the previous call returned.                      *)

\* the number of until calls in a chain
MaxUntilCalls == 2

UntilInputs ==
    { [date |-> [year |-> 1998, month |-> 1, day |-> 19],
       time |-> [hour |-> 7, minute |-> 0, second |-> 0]],
      [date |-> [year |-> 2020, month |-> 2, day |-> 29],
       time |-> [hour |-> 23, minute |-> 59, second |-> 59]],
      [date |-> [year |-> 1900, month |-> 12, day |-> 31],
       time |-> [hour |-> 0, minute |-> 0, second |-> 0]],
      [date |-> [year |-> 9999, month |-> 9, day |-> 9],
       time |-> [hour |-> 12, minute |-> 34, second |-> 56]] }

RuleInit ==
    /\ RuleIdle
    /\ DateIdle
    /\ TextIdle
    /\ CalIdle
    /\ OrdIdle

RuleNew(freq) ==
    /\ chain = << >>
    /\ chain' = <<RecurrenceRule_new(freq)>>
    /\ rfreq' = Some(freq)
    /\ UNCHANGED runtils
    /\ UNCHANGED <<dateVars, textVars, calVars, ordVars>>

RuleUntil(until) ==
    /\ chain # << >>
    /\ Len(runtils) < MaxUntilCalls
    /\ LET n == Len(chain)
           r == RecurrenceRule_until(chain[n], until)
       IN  chain' = Append([chain EXCEPT ![n] = r.self], r.ret)
    /\ runtils' = Append(runtils, until)
    /\ UNCHANGED rfreq
    /\ UNCHANGED <<dateVars, textVars, calVars, ordVars>>

RuleNext ==
    \/ \E f \in RecurrenceFrequencies : RuleNew(f)
    \/ \E d \in UntilInputs : RuleUntil(d)

SpecRule == RuleInit /\ [][RuleNext]_vars

----------------------------------------------------------------------------
(* SpecFreq: a program that formats a frequency and parses the text back,   *)
(* or parses a text it was given.                                           *)

\* u8::to_ascii_lowercase on the letters of the tokens
to_ascii_lowercase(c) ==
    CASE c = "A" -> "a" [] c = "C" -> "c" [] c = "D" -> "d" [] c = "E" -> "e"
      [] c = "H" -> "h" [] c = "I" -> "i" [] c = "K" -> "k" [] c = "L" -> "l"
      [] c = "M" -> "m" [] c = "N" -> "n" [] c = "O" -> "o" [] c = "R" -> "r"
      [] c = "S" -> "s" [] c = "T" -> "t" [] c = "U" -> "u" [] c = "W" -> "w"
      [] c = "Y" -> "y" [] OTHER -> c

FreqTokens == {RecurrenceFrequency_fmt(f) : f \in RecurrenceFrequencies}

\* every spelling of a token that lowers the letters from position i on
LowerFrom(s, i) == [k \in 1..Len(s) |-> IF k >= i THEN to_ascii_lowercase(s[k]) ELSE s[k]]

\* every spelling of a token that lowers the letter at position i only
LowerAt(s, i) == [k \in 1..Len(s) |-> IF k = i THEN to_ascii_lowercase(s[k]) ELSE s[k]]

FreqTexts ==
    FreqTokens
        \cup {LowerFrom(s, i) : s \in FreqTokens, i \in 1..2}
        \cup {LowerAt(s, i) : s \in FreqTokens, i \in {1, 3}}
        \cup {SubSeq(s, 1, Len(s) - 1) : s \in FreqTokens}
        \cup {SubSeq(s, 2, Len(s)) : s \in FreqTokens}
        \cup {s \o <<c>> : s \in FreqTokens, c \in {"Y", " ", "NUL"}}
        \cup {<<" ">> \o s : s \in FreqTokens}
        \cup {<<"F", "R", "E", "Q", "=">> \o s : s \in FreqTokens}
        \cup {<< >>, <<"L", "Y">>, <<"C3", "A9">>, <<"2", "0", "2", "1">>}

FreqInit ==
    /\ text \in FreqTexts
    /\ obj = None
    /\ parsed = None
    /\ DateIdle
    /\ RuleIdle
    /\ CalIdle
    /\ OrdIdle

\* a frequency value the program holds
FreqChoose(f) ==
    /\ TextIdle
    /\ obj' = Some([type |-> "RecurrenceFrequency", v |-> f])
    /\ UNCHANGED <<text, parsed>>
    /\ UNCHANGED <<dateVars, ruleVars, calVars, ordVars>>

\* freq.to_string()
FreqToString ==
    /\ obj.some
    /\ text = << >>
    /\ text' = RecurrenceFrequency_fmt(obj.val.v)
    /\ parsed' = None
    /\ UNCHANGED obj
    /\ UNCHANGED <<dateVars, ruleVars, calVars, ordVars>>

\* text.parse::<RecurrenceFrequency>()
FreqFromStr ==
    /\ parsed = None
    /\ parsed' = Some([parser |-> "RecurrenceFrequency",
                       res |-> RecurrenceFrequency_from_str(text)])
    /\ UNCHANGED <<text, obj>>
    /\ UNCHANGED <<dateVars, ruleVars, calVars, ordVars>>

FreqNext ==
    \/ \E f \in RecurrenceFrequencies : FreqChoose(f)
    \/ FreqToString
    \/ FreqFromStr

SpecFreq == FreqInit /\ [][FreqNext]_vars

----------------------------------------------------------------------------
(* SpecOrd: a program that holds two values of one type and compares them.  *)

OrdYears == {2021, 2022}
OrdMonths == {1, 2, 3}
OrdDays == {1, 2, 3}
OrdHours == {12, 13, 17}
OrdMinutes == {0, 20, 35}
OrdSeconds == {1, 3}

OrdDates ==
    {Date_new(y, m, d).val : y \in OrdYears, m \in OrdMonths, d \in OrdDays}

OrdTimes ==
    {Time_new_utc(h, m, s).val : h \in OrdHours, m \in OrdMinutes, s \in OrdSeconds}

OrdDateTimes ==
    {[date |-> Date_new(a[1], a[2], a[3]).val, time |-> Time_new_utc(b[1], b[2], b[3]).val] :
        a \in {<<2021, 1, 3>>, <<2022, 1, 1>>, <<2021, 2, 3>>},
        b \in {<<12, 0, 3>>, <<13, 0, 1>>, <<17, 20, 35>>}}

OrdValues ==
    {[type |-> "Date", v |-> d] : d \in OrdDates}
        \cup {[type |-> "Time", v |-> t] : t \in OrdTimes}
        \cup {[type |-> "DateTime", v |-> dt] : dt \in OrdDateTimes}

OrdInit ==
    /\ lhs \in {Some(x) : x \in OrdValues}
    /\ rhs \in {Some(x) : x \in {y \in OrdValues : y.type = lhs.val.type}}
    /\ ord = None
    /\ DateIdle
    /\ TextIdle
    /\ RuleIdle
    /\ CalIdle

\* a.cmp(&b), a == b, a < b, a > b on two Dates
DateCompare ==
    /\ ord = None
    /\ lhs.val.type = "Date"
    /\ LET c == Date_cmp(lhs.val.v, rhs.val.v)
       IN  ord' = Some([cmp |-> c, eq |-> Date_eq(lhs.val.v, rhs.val.v),
                        lt |-> partial_lt(c), gt |-> partial_gt(c)])
    /\ UNCHANGED <<lhs, rhs>>
    /\ UNCHANGED <<dateVars, textVars, ruleVars, calVars>>

TimeCompare ==
    /\ ord = None
    /\ lhs.val.type = "Time"
    /\ LET c == Time_cmp(lhs.val.v, rhs.val.v)
       IN  ord' = Some([cmp |-> c, eq |-> Time_eq(lhs.val.v, rhs.val.v),
                        lt |-> partial_lt(c), gt |-> partial_gt(c)])
    /\ UNCHANGED <<lhs, rhs>>
    /\ UNCHANGED <<dateVars, textVars, ruleVars, calVars>>

DateTimeCompare ==
    /\ ord = None
    /\ lhs.val.type = "DateTime"
    /\ LET c == DateTime_cmp(lhs.val.v, rhs.val.v)
       IN  ord' = Some([cmp |-> c, eq |-> DateTime_eq(lhs.val.v, rhs.val.v),
                        lt |-> partial_lt(c), gt |-> partial_gt(c)])
    /\ UNCHANGED <<lhs, rhs>>
    /\ UNCHANGED <<dateVars, textVars, ruleVars, calVars>>

OrdNext ==
    \/ DateCompare
    \/ TimeCompare
    \/ DateTimeCompare

SpecOrd == OrdInit /\ [][OrdNext]_vars

----------------------------------------------------------------------------
(* SpecCal and SpecEvent: a program that builds events, moves them into a   *)
(* calendar and writes the calendar to a sink.  SpecEvent builds one event  *)
(* over every combination of its fields; SpecCal builds calendars of        *)
(* several events.  A panic ends the program.                               *)

\* components of a calendar in SpecCal
MaxComponents == 2
\* the sink fails at its k-th write, k in 1..MaxFailAt, or never
MaxFailAt == 14

UuidInputs == {<<"uuid-1">>, <<"uuid-2">>}

StampInputs ==
    { [date |-> [year |-> 2021, month |-> 1, day |-> 1],
       time |-> [hour |-> 0, minute |-> 0, second |-> 0]],
      [date |-> [year |-> 2020, month |-> 2, day |-> 29],
       time |-> [hour |-> 23, minute |-> 59, second |-> 59]] }

StartInputs ==
    { StartDateTime_from_date([year |-> 2021, month |-> 1, day |-> 1]),
      StartDateTime_from_date_time(
          [date |-> [year |-> 1998, month |-> 1, day |-> 19],
           time |-> [hour |-> 7, minute |-> 0, second |-> 0]]) }

\* SpecCal builds its events from one stamp and one start
CalStampInputs ==
    { [date |-> [year |-> 2021, month |-> 1, day |-> 1],
       time |-> [hour |-> 0, minute |-> 0, second |-> 0]] }

CalStartInputs ==
    { StartDateTime_from_date([year |-> 2021, month |-> 1, day |-> 1]) }

FieldTexts == {<<"a">>, <<"b">>, <<"a", "NUL">>}

ProductIdentifiers == {<<"p">>, <<"q">>, <<"NUL">>}

RuleInputs ==
    { RecurrenceRule_new("Weekly"),
      RecurrenceRule_until(RecurrenceRule_new("Daily"),
          [date |-> [year |-> 1998, month |-> 1, day |-> 19],
           time |-> [hour |-> 7, minute |-> 0, second |-> 0]]).ret }

CalInit ==
    /\ CalIdle
    /\ OrdIdle
    /\ DateIdle
    /\ TextIdle
    /\ RuleIdle

\* the program has not panicked
Running == IF cout.some THEN cout.val.tag # "Panic" ELSE TRUE

\* a build call starts: the sink of an earlier write is gone
ForgetWrite ==
    /\ sink' = Writer_new(0)
    /\ wres' = None

SetProductIdentifierCall(s) ==
    /\ Running
    /\ LET r == Calendar_set_product_identifier(calendar, s)
       IN  /\ calendar' = IF r.tag = "Ok" THEN r.val ELSE calendar
           /\ gprodid' = IF r.tag = "Ok" THEN Some(s) ELSE gprodid
           /\ cout' = Some(r)
    /\ ForgetWrite
    /\ UNCHANGED <<event, gevent, gadded>>
    /\ UNCHANGED <<dateVars, textVars, ruleVars, ordVars>>

EventNewCall(maxEvents, start, stamp, uuid) ==
    /\ Running
    /\ ~event.some
    /\ Len(calendar.components) < maxEvents
    /\ LET r == Event_new(start, stamp, uuid)
       IN  /\ event' = IF r.tag = "Ok" THEN Some(r.val) ELSE event
           /\ gevent' = IF r.tag = "Ok"
                        THEN Some([uid |-> uuid, stamp |-> stamp, start |-> start,
                                   description |-> None, location |-> None,
                                   summary |-> None, rrule |-> None])
                        ELSE gevent
           /\ cout' = Some(r)
    /\ ForgetWrite
    /\ UNCHANGED <<calendar, gprodid, gadded>>
    /\ UNCHANGED <<dateVars, textVars, ruleVars, ordVars>>

SetDescriptionCall(t) ==
    /\ Running
    /\ event.some
    /\ LET r == Event_set_description(event.val, t)
       IN  /\ event' = IF r.tag = "Ok" THEN Some(r.val) ELSE event
           /\ gevent' = IF r.tag = "Ok"
                        THEN Some([gevent.val EXCEPT !.description = Some(t)])
                        ELSE gevent
           /\ cout' = Some(r)
    /\ ForgetWrite
    /\ UNCHANGED <<calendar, gprodid, gadded>>
    /\ UNCHANGED <<dateVars, textVars, ruleVars, ordVars>>

SetLocationCall(t) ==
    /\ Running
    /\ event.some
    /\ LET r == Event_set_location(event.val, t)
       IN  /\ event' = IF r.tag = "Ok" THEN Some(r.val) ELSE event
           /\ gevent' = IF r.tag = "Ok"
                        THEN Some([gevent.val EXCEPT !.location = Some(t)])
                        ELSE gevent
           /\ cout' = Some(r)
    /\ ForgetWrite
    /\ UNCHANGED <<calendar, gprodid, gadded>>
    /\ UNCHANGED <<dateVars, textVars, ruleVars, ordVars>>

SetSummaryCall(t) ==
    /\ Running
    /\ event.some
    /\ LET r == Event_set_summary(event.val, t)
       IN  /\ event' = IF r.tag = "Ok" THEN Some(r.val) ELSE event
           /\ gevent' = IF r.tag = "Ok"
                        THEN Some([gevent.val EXCEPT !.summary = Some(t)])
                        ELSE gevent
           /\ cout' = Some(r)
    /\ ForgetWrite
    /\ UNCHANGED <<calendar, gprodid, gadded>>
    /\ UNCHANGED <<dateVars, textVars, ruleVars, ordVars>>

SetRecurrenceRuleCall(rule) ==
    /\ Running
    /\ event.some
    /\ event' = Some(Event_set_recurrence_rule(event.val, rule))
    /\ gevent' = Some([gevent.val EXCEPT !.rrule = Some(rule)])
    /\ cout' = Some(Ok("()"))
    /\ ForgetWrite
    /\ UNCHANGED <<calendar, gprodid, gadded>>
    /\ UNCHANGED <<dateVars, textVars, ruleVars, ordVars>>

\* calendar.add_component(event): the event is moved into the calendar
AddComponentCall ==
    /\ Running
    /\ event.some
    /\ calendar' = Calendar_add_component(calendar, Component_from_event(event.val))
    /\ event' = None
    /\ gadded' = Append(gadded, gevent.val)
    /\ gevent' = None
    /\ cout' = Some(Ok("()"))
    /\ ForgetWrite
    /\ UNCHANGED gprodid
    /\ UNCHANGED <<dateVars, textVars, ruleVars, ordVars>>

\* calendar.write(sink), the sink failing at its failAt-th write (0: never)
CalendarWriteCall(failAt) ==
    /\ Running
    /\ LET r == Calendar_write(calendar, Writer_new(failAt))
       IN  /\ calendar' = r.self
           /\ sink' = r.w
           /\ wres' = Some(r.res)
    /\ UNCHANGED <<event, cout, gprodid, gevent, gadded>>
    /\ UNCHANGED <<dateVars, textVars, ruleVars, ordVars>>

EventNext ==
    \/ \E s \in StartInputs, d \in StampInputs, u \in UuidInputs : EventNewCall(1, s, d, u)
    \/ \E t \in FieldTexts : SetDescriptionCall(t)
    \/ \E t \in FieldTexts : SetLocationCall(t)
    \/ \E t \in FieldTexts : SetSummaryCall(t)
    \/ \E r \in RuleInputs : SetRecurrenceRuleCall(r)
    \/ AddComponentCall
    \/ \E k \in 0..MaxFailAt : CalendarWriteCall(k)

SpecEvent == CalInit /\ [][EventNext]_vars

CalNext ==
    \/ \E s \in ProductIdentifiers : SetProductIdentifierCall(s)
    \/ \E s \in CalStartInputs, d \in CalStampInputs, u \in UuidInputs :
          EventNewCall(MaxComponents, s, d, u)
    \/ SetSummaryCall(<<"a">>)
    \/ AddComponentCall
    \/ \E k \in 0..MaxFailAt : CalendarWriteCall(k)

SpecCal == CalInit /\ [][CalNext]_vars

----------------------------------------------------------------------------
(* Claims about Date *)

\* The calendar as the claims state it.
ClaimLeap(y) == y % 4 = 0 /\ (y % 100 # 0 \/ y % 400 = 0)
ClaimDays(y, m) ==
    IF m = 2 THEN (IF ClaimLeap(y) THEN 29 ELSE 28)
    ELSE IF m \in {4, 6, 9, 11} THEN 30 ELSE 31
ClaimValidDate(y, m, d) ==
    /\ y <= 9999
    /\ 1 <= m /\ m <= 12
    /\ 1 <= d /\ d <= ClaimDays(y, m)

\* C1: every Date that exists, whatever successful setter calls it went
\* through, is a valid calendar date (year <= 9999, month in 1..12, day in
\* 1..days of that month in that year).
C1_DateAlwaysValid ==
    date.some => ClaimValidDate(date.val.year, date.val.month, date.val.day)

\* C9: Date::new(year, month, day) panics exactly when year > 9999, month is
\* outside 1..12 or day is outside 1..days of the month (Gregorian leap rule);
\* otherwise it returns a Date whose getters return the three arguments.
C9_DateNewContract ==
    dcall.op = "new" =>
        LET y == dcall.args[1]
            m == dcall.args[2]
            d == dcall.args[3]
            r == dout.val
        IN  /\ (r.tag = "Panic") <=> ~ClaimValidDate(y, m, d)
            /\ ClaimValidDate(y, m, d) =>
                  /\ r.tag = "Ok"
                  /\ Date_year(r.val) = y
                  /\ Date_month(r.val) = m
                  /\ Date_day(r.val) = d
                  /\ date = Some(r.val)
            /\ (m = 2 /\ d = 29 /\ y \in {2020, 2000}) => r.tag = "Ok"
            /\ (m = 2 /\ d = 29 /\ y \in {2021, 1900}) => r.tag = "Panic"

\* Date::new(2000, 2, 29) has returned a Date.
C9_Witness ==
    /\ dcall.op = "new"
    /\ dcall.args = <<2000, 2, 29>>
    /\ dout.val.tag = "Ok"
    /\ date = Some([year |-> 2000, month |-> 2, day |-> 29])

----------------------------------------------------------------------------
(* Claims about parsing and formatting *)

\* C5: a value built by Date::new, Time::new_utc or from such a Date and Time,
\* formatted and parsed back by its own parser, parses successfully to the
\* value itself.
C5_RoundTrip ==
    (/\ obj.some
     /\ text # << >>
     /\ parsed.some
     /\ parsed.val.parser = obj.val.type)
        => parsed.val.res = Ok(obj.val.v)

\* DateTime(2020-02-29, 23:59:59) was formatted and parsed back to itself.
C5_Witness ==
    /\ obj = Some([type |-> "DateTime",
                     v |-> [date |-> [year |-> 2020, month |-> 2, day |-> 29],
                            time |-> [hour |-> 23, minute |-> 59, second |-> 59]]])
    /\ Len(text) = 16
    /\ parsed.some
    /\ parsed.val.parser = "DateTime"
    /\ parsed.val.res = Ok(obj.val.v)

\* the number of characters of a text: its bytes that start a character
CharCount(s) == Cardinality({i \in 1..Len(s) : s[i] \notin ContBytes})
AllAsciiDigits(s, a, b) == \A i \in a..b : s[i] \in Digits
ReadTwo(s, a) == 10 * DigitVal(s[a]) + DigitVal(s[a + 1])
ReadFour(s, a) == 100 * ReadTwo(s, a) + ReadTwo(s, a + 2)

C6_Accepted(s) ==
    /\ CharCount(s) = 8
    /\ Len(s) = 8
    /\ AllAsciiDigits(s, 1, 8)
    /\ ReadTwo(s, 5) \in 1..12
    /\ ReadTwo(s, 7) \in 1..days_in_month(ReadFour(s, 1), ReadTwo(s, 5)).val

\* C6: Date parsing accepts exactly the texts of 8 characters, all ASCII
\* digits, whose month (characters 5-6) is in 1..12 and whose day (characters
\* 7-8) is in 1..days_in_month(year, month); then the Date has those field
\* values; every other text gives ParseDateError, never a panic.
C6_DateParse ==
    (parsed.some /\ parsed.val.parser = "Date") =>
        IF C6_Accepted(text)
        THEN parsed.val.res = Ok([year |-> ReadFour(text, 1),
                                  month |-> ReadTwo(text, 5),
                                  day |-> ReadTwo(text, 7)])
        ELSE parsed.val.res = ParseDateError

\* "20200229" was parsed to Date(2020, 2, 29).
C6_Witness ==
    /\ text = <<"2", "0", "2", "0", "0", "2", "2", "9">>
    /\ parsed = Some([parser |-> "Date",
                      res |-> Ok([year |-> 2020, month |-> 2, day |-> 29])])

C7_Accepted(s) ==
    /\ CharCount(s) = 7
    /\ Len(s) = 7
    /\ AllAsciiDigits(s, 1, 6)
    /\ s[7] = "Z"
    /\ ReadTwo(s, 1) <= 23
    /\ ReadTwo(s, 3) <= 59
    /\ ReadTwo(s, 5) <= 59

\* C7: Time parsing accepts exactly the 7-character texts made of six ASCII
\* digits reading as hour <= 23, minute <= 59, second <= 59 and a final "Z";
\* then the Time has those field values; every other text (the 6-digit local
\* form, a second of 60) gives ParseTimeError, never a panic.
C7_TimeParse ==
    (parsed.some /\ parsed.val.parser = "Time") =>
        /\ IF C7_Accepted(text)
           THEN parsed.val.res = Ok([hour |-> ReadTwo(text, 1),
                                     minute |-> ReadTwo(text, 3),
                                     second |-> ReadTwo(text, 5)])
           ELSE parsed.val.res = ParseTimeError
        /\ (Len(text) = 6 /\ AllAsciiDigits(text, 1, 6)) => parsed.val.res = ParseTimeError
        /\ (Len(text) = 7 /\ AllAsciiDigits(text, 1, 6) /\ ReadTwo(text, 5) = 60)
              => parsed.val.res = ParseTimeError

\* "235959Z" was parsed to Time(23, 59, 59).
C7_Witness ==
    /\ text = <<"2", "3", "5", "9", "5", "9", "Z">>
    /\ parsed = Some([parser |-> "Time",
                      res |-> Ok([hour |-> 23, minute |-> 59, second |-> 59])])

HasT(s) == \E i \in 1..Len(s) : s[i] = "T"
FirstT(s) == CHOOSE i \in 1..Len(s) : s[i] = "T" /\ \A j \in 1..(i - 1) : s[j] # "T"
BeforeT(s) == SubSeq(s, 1, FirstT(s) - 1)
AfterT(s) == SubSeq(s, FirstT(s) + 1, Len(s))
CountT(s) == Cardinality({i \in 1..Len(s) : s[i] = "T"})

\* C8: DateTime parsing splits the text at its first "T"; it succeeds exactly
\* when a "T" exists, the part before it parses as a Date and the part after
\* it as a Time, and the result holds that Date and that Time; no "T", a time
\* part without the final "Z" (an offset suffix included), extra characters
\* or a second "T" all give ParseDateTimeError.
C8_DateTimeParse ==
    (parsed.some /\ parsed.val.parser = "DateTime") =>
        /\ IF /\ HasT(text)
              /\ Date_from_str(BeforeT(text)).tag = "Ok"
              /\ Time_from_str(AfterT(text)).tag = "Ok"
           THEN parsed.val.res = Ok([date |-> Date_from_str(BeforeT(text)).val,
                                     time |-> Time_from_str(AfterT(text)).val])
           ELSE parsed.val.res = ParseDateTimeError
        /\ ~HasT(text) => parsed.val.res = ParseDateTimeError
        /\ CountT(text) >= 2 => parsed.val.res = ParseDateTimeError
        /\ Len(text) # 16 => parsed.val.res = ParseDateTimeError
        /\ (Len(text) > 0 /\ text[Len(text)] # "Z") => parsed.val.res = ParseDateTimeError

\* "19980119T070000Z" was parsed to DateTime(1998-01-19, 07:00:00).
C8_Witness ==
    /\ text = <<"1", "9", "9", "8", "0", "1", "1", "9", "T",
                "0", "7", "0", "0", "0", "0", "Z">>
    /\ parsed = Some([parser |-> "DateTime",
                      res |-> Ok([date |-> [year |-> 1998, month |-> 1, day |-> 19],
                                  time |-> [hour |-> 7, minute |-> 0, second |-> 0]])])

----------------------------------------------------------------------------
(* Claims about recurrence rules *)

ClaimFreqToken(f) ==
    CASE f = "Yearly" -> <<"Y", "E", "A", "R", "L", "Y">>
      [] f = "Monthly" -> <<"M", "O", "N", "T", "H", "L", "Y">>
      [] f = "Weekly" -> <<"W", "E", "E", "K", "L", "Y">>
      [] f = "Daily" -> <<"D", "A", "I", "L", "Y">>
      [] f = "Hourly" -> <<"H", "O", "U", "R", "L", "Y">>
      [] f = "Minutely" -> <<"M", "I", "N", "U", "T", "E", "L", "Y">>
      [] f = "Secondly" -> <<"S", "E", "C", "O", "N", "D", "L", "Y">>

\* C10: the rule from new(f) formats as FREQ=<token of f>; the rule returned
\* by the n-th until call formats as FREQ=<token of f>;UNTIL=<format of dn>:
\* the frequency never changes, the bound is the most recent one, and every
\* rule an until was called on still formats as it did before the call.
C10_RuleFormat ==
    \A i \in 1..Len(chain) :
        RecurrenceRule_fmt(chain[i]) =
            IF i = 1
            THEN <<"F", "R", "E", "Q", "=">> \o ClaimFreqToken(rfreq.val)
            ELSE <<"F", "R", "E", "Q", "=">> \o ClaimFreqToken(rfreq.val)
                    \o <<";", "U", "N", "T", "I", "L", "=">> \o DateTime_fmt(runtils[i - 1])

\* new(Weekly).until(d1).until(1998-01-19 07:00:00) formats as
\* FREQ=WEEKLY;UNTIL=19980119T070000Z, with d1 a different bound.
C10_Witness ==
    /\ Len(chain) = 3
    /\ rfreq = Some("Weekly")
    /\ runtils[1] # runtils[2]
    /\ RecurrenceRule_fmt(chain[3]) = <<"F", "R", "E", "Q", "=", "W", "E", "E", "K", "L", "Y", ";", "U", "N", "T", "I", "L", "=", "1", "9", "9", "8", "0", "1", "1", "9", "T", "0", "7", "0", "0", "0", "0", "Z">>
    /\ RecurrenceRule_fmt(chain[1]) = <<"F", "R", "E", "Q", "=", "W", "E", "E", "K", "L", "Y">>

----------------------------------------------------------------------------
(* Claims about serialization *)

Line(name, v) == [name |-> name, value |-> v]

\* the lines of one event, from the log of the calls that built it
ClaimEventLines(g) ==
    <<Line("BEGIN", <<"V", "E", "V", "E", "N", "T">>),
      Line("UID", g.uid),
      Line("DTSTAMP", DateTime_fmt(g.stamp)),
      Line("DTSTART", IF g.start.value.variant = "Date"
                      THEN Date_fmt(g.start.value.v)
                      ELSE DateTime_fmt(g.start.value.v))>>
        \o (IF g.description.some THEN <<Line("DESCRIPTION", g.description.val)>> ELSE << >>)
        \o (IF g.location.some THEN <<Line("LOCATION", g.location.val)>> ELSE << >>)
        \o (IF g.summary.some THEN <<Line("SUMMARY", g.summary.val)>> ELSE << >>)
        \o (IF g.rrule.some THEN <<Line("RRULE", RecurrenceRule_fmt(g.rrule.val))>> ELSE << >>)
        \o <<Line("END", <<"V", "E", "V", "E", "N", "T">>)>>

RECURSIVE ClaimEventsLines(_)
ClaimEventsLines(gs) ==
    IF gs = << >> THEN << >>
    ELSE ClaimEventLines(Head(gs)) \o ClaimEventsLines(Tail(gs))

\* the lines of the calendar, from the log of the calls that built it
ClaimCalendarLines ==
    <<Line("BEGIN", <<"V", "C", "A", "L", "E", "N", "D", "A", "R">>),
      Line("PRODID", IF gprodid.some THEN gprodid.val ELSE DEFAULT_PRODUCT_IDENTIFIER),
      Line("VERSION", <<"2", ".", "0">>)>>
        \o ClaimEventsLines(gadded)
        \o <<Line("END", <<"V", "C", "A", "L", "E", "N", "D", "A", "R">>)>>

\* C2: a write that returned Ok gave the sink BEGIN:VCALENDAR, PRODID with
\* the last product identifier set (the default if none), VERSION:2.0, the
\* lines of each component in the order of the add_component calls, and
\* END:VCALENDAR last; nothing else.
C2_CalendarLines ==
    (wres.some /\ wres.val.tag = "Ok") =>
        /\ sink.lines = ClaimCalendarLines
        /\ sink.lines[Len(sink.lines)].name = "END"
        /\ sink.calls = Len(sink.lines)

\* A calendar whose product identifier was set and that holds two events with
\* different lines was written without failure.
C2_Witness ==
    /\ wres.some /\ wres.val.tag = "Ok"
    /\ gprodid.some
    /\ Len(gadded) = 2
    /\ ClaimEventLines(gadded[1]) # ClaimEventLines(gadded[2])
    /\ Len(sink.lines) > 12

\* C3: the lines of an event, in a write that returned Ok, are BEGIN:VEVENT,
\* UID, DTSTAMP, DTSTART (YYYYMMDD for a Date start, YYYYMMDDTHHMMSSZ for a
\* DateTime start), DESCRIPTION, LOCATION, SUMMARY and RRULE each exactly when
\* set and with the last value set, END:VEVENT, in this order whatever the
\* order of the setter calls.
C3_EventLines ==
    (wres.some /\ wres.val.tag = "Ok" /\ Len(gadded) = 1) =>
        LET g == gadded[1]
            ev == SubSeq(sink.lines, 4, Len(sink.lines) - 1)
            names == [i \in 1..Len(ev) |-> ev[i].name]
        IN  /\ ev = ClaimEventLines(g)
            /\ names = <<"BEGIN", "UID", "DTSTAMP", "DTSTART">>
                        \o (IF g.description.some THEN <<"DESCRIPTION">> ELSE << >>)
                        \o (IF g.location.some THEN <<"LOCATION">> ELSE << >>)
                        \o (IF g.summary.some THEN <<"SUMMARY">> ELSE << >>)
                        \o (IF g.rrule.some THEN <<"RRULE">> ELSE << >>)
                        \o <<"END">>
            /\ Len(ev[4].value) = IF g.start.value.variant = "Date" THEN 8 ELSE 16

\* An event with a DateTime start, description "b", location "a", summary "b"
\* and a recurrence rule with an end bound was written without failure.
C3_Witness ==
    /\ wres.some /\ wres.val.tag = "Ok"
    /\ Len(gadded) = 1
    /\ gadded[1].start.value.variant = "DateTime"
    /\ gadded[1].description = Some(<<"b">>)
    /\ gadded[1].location = Some(<<"a">>)
    /\ gadded[1].summary = Some(<<"b">>)
    /\ gadded[1].rrule.some /\ gadded[1].rrule.val.until.some
    /\ Len(sink.lines) = 13

\* C4: when the sink fails at its k-th write, the sink has taken exactly the
\* first k-1 lines of the full output, no write follows the k-th (no retry, no
\* later line), and write returns the sink's error.
C4_StopsAtFirstFailure ==
    (wres.some /\ sink.failAt >= 1 /\ sink.failAt <= Len(ClaimCalendarLines)) =>
        /\ sink.lines = SubSeq(ClaimCalendarLines, 1, sink.failAt - 1)
        /\ sink.calls = sink.failAt
        /\ wres.val = Err(SinkError(sink.failAt))

\* The sink failed inside the second of two events: at the 11th write.
C4_Witness ==
    /\ wres.some /\ wres.val.tag = "Err"
    /\ Len(gadded) = 2
    /\ sink.failAt = 11
    /\ Len(sink.lines) = 10
    /\ sink.calls = 11
    /\ Len(ClaimCalendarLines) > 12
    /\ sink.lines[10].name = "UID"

----------------------------------------------------------------------------
(* C11 *)

\* the seven tokens of the frequency grammar
ClaimFreqTokens ==
    { <<"Y", "E", "A", "R", "L", "Y">>, <<"M", "O", "N", "T", "H", "L", "Y">>,
      <<"W", "E", "E", "K", "L", "Y">>, <<"D", "A", "I", "L", "Y">>,
      <<"H", "O", "U", "R", "L", "Y">>, <<"M", "I", "N", "U", "T", "E", "L", "Y">>,
      <<"S", "E", "C", "O", "N", "D", "L", "Y">> }

\* C11: the frequency text mapping is two-way over the seven frequencies:
\* parsing the text a frequency formats to gives that frequency; a text that
\* parses formats back to itself; distinct frequencies format to distinct
\* tokens; and a text parses exactly when it is one of the seven upper-case
\* tokens, every other text failing with the recoverable error.
C11_FreqTwoWay ==
    /\ Cardinality(RecurrenceFrequencies) = 7
    /\ \A f, g \in RecurrenceFrequencies :
          RecurrenceFrequency_fmt(f) = RecurrenceFrequency_fmt(g) => f = g
    /\ (obj.some /\ text # << >>) => text \in ClaimFreqTokens
    /\ parsed.some =>
          /\ (obj.some /\ text # << >>) => parsed.val.res = Ok(obj.val.v)
          /\ parsed.val.res.tag = "Ok" =>
                /\ parsed.val.res.val \in RecurrenceFrequencies
                /\ RecurrenceFrequency_fmt(parsed.val.res.val) = text
          /\ (parsed.val.res.tag = "Ok") <=> (text \in ClaimFreqTokens)
          /\ text \notin ClaimFreqTokens => parsed.val.res = Err("()")

\* Hourly was formatted and the text HOURLY parsed back.
C11_Witness ==
    /\ obj = Some([type |-> "RecurrenceFrequency", v |-> "Hourly"])
    /\ text = <<"H", "O", "U", "R", "L", "Y">>
    /\ parsed.some
    /\ parsed.val.res = Ok("Hourly")

----------------------------------------------------------------------------
(* C12 *)

\* C12: a write changes nothing of the tree: in every step that is a write
\* (the steps that leave a write result), succeeding or failing, the
\* calendar (product identifier, components, every event field) and the
\* event still being built are as before; a successful write that follows a
\* successful write hands its sink the same lines; and the lines of a
\* successful write are those of the tree the build calls made, whatever
\* writes came before.
C12_WriteLeavesTree ==
    [][ wres'.some =>
          /\ calendar' = calendar
          /\ event' = event
          /\ (wres.some /\ wres.val.tag = "Ok" /\ wres'.val.tag = "Ok")
                => sink'.lines = sink.lines
          /\ wres'.val.tag = "Ok" => sink'.lines = ClaimCalendarLines' ]_vars

\* A calendar of two events with a product identifier was written in full
\* and still holds both events.
C12_Witness ==
    /\ wres.some /\ wres.val.tag = "Ok"
    /\ Len(calendar.components) = 2
    /\ Len(gadded) = 2
    /\ gprodid.some
    /\ sink.failAt = 0
    /\ Len(sink.lines) > 12
    /\ sink.lines = ClaimCalendarLines

----------------------------------------------------------------------------
(* C13 *)

\* The event the calls so far describe: the identifier, stamp and start given
\* at creation, and for each optional field the value of the last successful
\* call of its own setter.
ClaimEvent(g) ==
    [uid |-> g.uid,
     date_time |-> g.stamp,
     start_date_time |-> g.start,
     description |-> g.description,
     location |-> g.location,
     summary |-> g.summary,
     recurrence_rule |-> g.rrule]

\* C13: after Event::new, whatever setters, add_component and write calls
\* follow, the event keeps the identifier, creation timestamp and start time
\* it was created with, and every optional field holds what its own setter
\* last stored (nothing if it was never called): no setter touches another
\* field, and moving the event into the calendar or writing the calendar
\* changes no field.
C13_EventFieldsFixed ==
    /\ event.some <=> gevent.some
    /\ event.some => event.val = ClaimEvent(gevent.val)
    /\ Len(calendar.components) = Len(gadded)
    /\ \A i \in 1..Len(gadded) :
          /\ calendar.components[i].kind = "Event"
          /\ calendar.components[i].event = ClaimEvent(gadded[i])

\* An event created with uuid-2 had all four setters called, was moved into
\* the calendar, and the calendar was written.
C13_Witness ==
    /\ wres.some
    /\ Len(calendar.components) = 1
    /\ calendar.components[1].event.uid = <<"uuid-2">>
    /\ gadded[1].uid = <<"uuid-2">>
    /\ calendar.components[1].event.description = Some(<<"a">>)
    /\ calendar.components[1].event.location = Some(<<"b">>)
    /\ calendar.components[1].event.summary = Some(<<"a">>)
    /\ calendar.components[1].event.recurrence_rule.some
    /\ calendar.components[1].event.start_date_time.value.variant = "DateTime"
    /\ calendar.components[1].event.date_time.date.year = 2020

----------------------------------------------------------------------------
(* C14 *)

\* lexicographic order on triples of numbers
LexLess(a, b) ==
    \/ a[1] < b[1]
    \/ a[1] = b[1] /\ a[2] < b[2]
    \/ a[1] = b[1] /\ a[2] = b[2] /\ a[3] < b[3]

DateFields(d) == <<d.year, d.month, d.day>>
TimeFields(t) == <<t.hour, t.minute, t.second>>

\* a before b, as the claim orders values of the given type
ClaimLess(type, a, b) ==
    CASE type = "Date" -> LexLess(DateFields(a), DateFields(b))
      [] type = "Time" -> LexLess(TimeFields(a), TimeFields(b))
      [] type = "DateTime" ->
            \/ LexLess(DateFields(a.date), DateFields(b.date))
            \/ /\ DateFields(a.date) = DateFields(b.date)
               /\ LexLess(TimeFields(a.time), TimeFields(b.time))

\* all fields equal
ClaimSame(type, a, b) ==
    CASE type = "Date" -> DateFields(a) = DateFields(b)
      [] type = "Time" -> TimeFields(a) = TimeFields(b)
      [] type = "DateTime" ->
            DateFields(a.date) = DateFields(b.date) /\ TimeFields(a.time) = TimeFields(b.time)

\* C14: for two Dates, two Times or two DateTimes, a < b exactly when a comes
\* before b lexicographically on (year, month, day), (hour, minute, second)
\* or (date, time); a > b exactly when b comes before a; a == b exactly when
\* all fields are equal; exactly one of the three holds; and cmp agrees.
\* Date(2022,1,1) > Date(2021,1,3) and Time(13,0,1) > Time(12,0,3).
C14_LexicographicOrder ==
    ord.some =>
        LET t == lhs.val.type
            a == lhs.val.v
            b == rhs.val.v
            r == ord.val
        IN  /\ r.lt <=> ClaimLess(t, a, b)
            /\ r.gt <=> ClaimLess(t, b, a)
            /\ r.eq <=> ClaimSame(t, a, b)
            /\ (r.lt /\ ~r.eq /\ ~r.gt) \/ (~r.lt /\ r.eq /\ ~r.gt) \/ (~r.lt /\ ~r.eq /\ r.gt)
            /\ r.cmp = (IF r.lt THEN "Less" ELSE IF r.eq THEN "Equal" ELSE "Greater")
            /\ (t = "Date" /\ DateFields(a) = <<2022, 1, 1>> /\ DateFields(b) = <<2021, 1, 3>>)
                  => r.gt
            /\ (t = "Time" /\ TimeFields(a) = <<13, 0, 1>> /\ TimeFields(b) = <<12, 0, 3>>)
                  => r.gt

\* Two DateTimes were compared whose dates and times order oppositely:
\* 2022-01-01 12:00:03 is greater than 2021-01-03 13:00:01.
C14_Witness ==
    /\ ord.some
    /\ lhs.val.type = "DateTime"
    /\ DateFields(lhs.val.v.date) = <<2022, 1, 1>>
    /\ TimeFields(lhs.val.v.time) = <<12, 0, 3>>
    /\ DateFields(rhs.val.v.date) = <<2021, 1, 3>>
    /\ TimeFields(rhs.val.v.time) = <<13, 0, 1>>
    /\ ord.val.gt
    /\ ord.val.cmp = "Greater"

----------------------------------------------------------------------------
(* C15 *)

\* days_in_month panics exactly when it is invoked with a month outside
\* 1..12, and that panic passes through its callers unchanged, so a call
\* returned this value exactly when it invoked days_in_month with such a month.
InvalidMonthFailure == Panic("Invalid month")

\* C15: no call of Date::new, of the Date parser or of a setter, after any
\* sequence of successful and failed setter calls, ends in the invalid-month
\* failure of days_in_month; the Date always holds a month in 1..12; and an
\* invalid month is reported by the caller's own check: Date::new and
\* set_month panic with their own message, the parser returns ParseDateError.
C15_MonthValidatedFirst ==
    /\ date.some => date.val.month \in 1..12
    /\ dout.some =>
          /\ dout.val # InvalidMonthFailure
          /\ (dcall.op = "new" /\ dcall.args[2] \notin 1..12) =>
                /\ dout.val.tag = "Panic"
                /\ dcall.args[1] <= 9999 =>
                      dout.val = Panic("Month must be between 1 and 12")
                /\ date = None
          /\ (dcall.op = "set_month" /\ dcall.args[1] \notin 1..12) =>
                dout.val = Panic("Month must be between 1 and 12")
          /\ (dcall.op = "from_str" /\ Len(dcall.args[1]) = 8
                /\ AllAsciiDigits(dcall.args[1], 1, 8)
                /\ ReadTwo(dcall.args[1], 5) \notin 1..12) =>
                /\ dout.val = ParseDateError
                /\ date = None

\* A Date parsed or made, then moved to February of a leap year by the
\* setters, had set_day(29) succeed: days_in_month was asked about month 2.
C15_Witness ==
    /\ dcall.op = "set_day"
    /\ dcall.args = <<29>>
    /\ dout.some /\ dout.val.tag = "Ok"
    /\ date = Some([year |-> 2020, month |-> 2, day |-> 29])

=============================================================================
